---- MODULE Spec2Model ----
(***************************************************************************)
(* QuicTransportFactoryImpl (web_transport/sdk/impl/                       *)
(* quic_transport_factory_impl.cc): the factory that owns the I/O thread   *)
(* and the event thread, builds servers on the calling thread, and builds  *)
(* clients by posting a construction task to the I/O thread and blocking   *)
(* on a WaitableEvent.                                                     *)
(*                                                                         *)
(* base::Thread, its task runner and base::WaitableEvent are used as the   *)
(* factory uses them: PostTask appends to the thread's queue while the     *)
(* thread runs and drops the task once the thread has stopped (its result  *)
(* is ignored at line 118); the thread runs one task at a time; Wait       *)
(* blocks until Signal; destroying a Thread stops and joins it.            *)
(***************************************************************************)
EXTENDS Integers, Sequences, FiniteSets, TLC

(* ------------------------------ bounds --------------------------------- *)
\* CreateQuicTransportClient calls made in one behaviour, over all threads.
MaxClientCalls == 3
\* CreateQuicTransportServer calls made in one behaviour, over all threads.
MaxServerCalls == 2
\* Factories constructed in the process, the first one included.
MaxFactories == 3

(* ------------------------------ inputs --------------------------------- *)
\* Threads that call into the factory: an arbitrary caller thread, the event
\* thread and the I/O thread (a task running there calls the factory). The
\* factory is destroyed by one more thread, which makes no other call.
CallerThreads == {"t1", "ev"}
Threads == CallerThreads \cup {"io"}

GoodUrl == "https://example.test:9090"
BadUrl == "not a url"
Urls == {GoodUrl, BadUrl}

\* owt::quic::CertificateFingerprint arrays handed in Parameters.
FingerprintLists ==
  { <<>>,
    <<[algorithm |-> "sha-1", fingerprint |-> "d2"],
      [algorithm |-> "sha-256", fingerprint |-> "d1"]>> }

\* The lists the fingerprint loop is exercised on: both orders of two
\* digests, a repeated digest, a digest of another algorithm.
TranslatorLists ==
  FingerprintLists \cup
  { <<[algorithm |-> "sha-256", fingerprint |-> "d1"]>>,
    <<[algorithm |-> "sha-256", fingerprint |-> "d1"],
      [algorithm |-> "sha-256", fingerprint |-> "d3"]>>,
    <<[algorithm |-> "sha-256", fingerprint |-> "d3"],
      [algorithm |-> "sha-256", fingerprint |-> "d1"]>>,
    <<[algorithm |-> "sha-256", fingerprint |-> "d1"],
      [algorithm |-> "sha-256", fingerprint |-> "d1"]>> }

\* What server_certificate_fingerprints of a default-constructed Parameters
\* may point at: the one-argument form sets the length only.
UnsetArrays == { <<>>, <<[algorithm |-> "sha-1", fingerprint |-> "d2"]>> }

Ports == {9090}
Variants == {"FilePair", "Archive"}
\* What the paths handed to CreateQuicTransportServer name: a certificate
\* and key file pair, a PKCS12 archive with its password, material that does
\* not load, or nothing (empty paths). The loader's answer is a function of
\* it.
Materials == {"pem", "pfx", "invalid", "none"}

\* nullptr
Null == 0

VARIABLES
  factory,      \* "alive" | "destroying" | "destroyed"
  ioRunning,    \* io_thread_ runs its message loop and accepts tasks
  evRunning,    \* event_thread_ runs its message loop
  ioQueue,      \* tasks posted to io_thread_ and not yet started
  ioCur,        \* <<task>> while the I/O thread is inside a task, else <<>>
  ioPc,         \* position inside the construction task
  ioClient,     \* the task's local `client`
  pc,           \* per thread: position inside CreateQuicTransportClient
  url,          \* per thread: the call's `url` argument
  param,        \* per thread: the call's local net::WebTransportParameters
  result,       \* per thread: the call's local `result`
  done,         \* per thread: the call's local WaitableEvent `done`
  callNo,       \* per thread: number of the call it is in / last made
  clients,      \* the QuicTransportOwtClientImpl objects, by handle
  servers,      \* the QuicTransportOwtServerImpl objects, by handle
  clientLog,    \* history: the CreateQuicTransportClient calls that returned
  serverLog,    \* history: the CreateQuicTransportServer calls, in order
  released,     \* history: the handles given to ReleaseQuicTransportServer
  factories,    \* process: how many factories have been constructed
  initRuns,     \* process: how many times Init() has run
  commandLine,  \* process: the switches appended to the command line
  endpointOps,  \* history: which thread constructed / destroyed endpoints
  callInfo      \* history, per thread: what the topology did to the call

vars == <<factory, ioRunning, evRunning, ioQueue, ioCur, ioPc,
          ioClient, pc, url, param, result, done, callNo, clients, servers,
          clientLog, serverLog, endpointOps, callInfo, released, factories,
          initRuns, commandLine>>

factoryVars == <<factory, ioRunning, evRunning>>
taskVars == <<ioQueue, ioCur, ioPc, ioClient>>
serverVars == <<servers, serverLog, released>>
processVars == <<factories, initRuns, commandLine>>

NoInfo == [startedRunning |-> FALSE, raced |-> FALSE, posted |-> "no",
           form |-> "none", fps |-> <<>>, serverCalls |-> 0]

Init ==
  /\ factory = "alive"
  /\ ioRunning = TRUE
  /\ evRunning = TRUE
  /\ ioQueue = <<>>
  /\ ioCur = <<>>
  /\ ioPc = "idle"
  /\ ioClient = Null
  /\ pc = [t \in Threads |-> "idle"]
  /\ url = [t \in Threads |-> GoodUrl]
  /\ param = [t \in Threads |-> <<>>]
  /\ result = [t \in Threads |-> Null]
  /\ done = [t \in Threads |-> FALSE]
  /\ callNo = [t \in Threads |-> 0]
  /\ clients = <<>>
  /\ servers = <<>>
  /\ clientLog = {}
  /\ serverLog = <<>>
  /\ released = {}
  /\ factories = 1
  /\ initRuns = 1
  /\ commandLine = <<"--quic_default_to_bbr">>
  /\ endpointOps = {}
  /\ callInfo = [t \in Threads |-> NoInfo]

(* --------------------------- pure helpers ------------------------------ *)
\* url::Origin::Create(GURL(url)): a tuple origin for a URL that parses, an
\* opaque origin otherwise.
OriginCreate(u) ==
  IF u = GoodUrl THEN <<"https", "example.test", 9090>> ELSE <<"opaque">>

\* The fingerprint loop: one internal record per input record, in order,
\* every one labelled kSha256.
TranslateFingerprints_Reversed(fps) ==
  [i \in 1..Len(fps) |->
     [algorithm |-> "kSha256",
      fingerprint |-> fps[Len(fps) + 1 - i].fingerprint]]

TranslateFingerprints(fps) ==
  [i \in 1..Len(fps) |->
     [algorithm |-> "kSha256", fingerprint |-> fps[i].fingerprint]]

\* Lines 62 / 78: the provider class each overload makes.
ProviderFor_Same(variant) == "ProofSourceChromium"

ProviderFor(variant) ==
  IF variant = "FilePair" THEN "ProofSourceChromium" ELSE "ProofSourceOwt"

\* ProofSourceChromium::Initialize / ProofSourceOwt::Initialize: each loads
\* its own kind of material only.
ProofSourceInitialize(provider, material) ==
  \/ (provider = "ProofSourceChromium" /\ material = "pem")
  \/ (provider = "ProofSourceOwt" /\ material = "pfx")

\* Thread t can enter a factory method: the object exists, t is not inside
\* another call, and a worker thread's loop runs (on the I/O thread the call
\* comes from a task, between the construction tasks).
CanCall(t) ==
  /\ factory # "destroyed"
  /\ pc[t] = "idle"
  /\ (t = "ev" => evRunning)
  /\ (t = "io" => ioRunning /\ ioPc = "idle")

TotalClientCalls == callNo["t1"] + callNo["ev"] + callNo["io"]

\* The call of thread t still has its task queued or running.
TaskPending(t) ==
  \/ \E i \in 1..Len(ioQueue) : ioQueue[i].caller = t
  \/ (ioCur # <<>> /\ ioCur[1].caller = t)

(* ------------------- CreateQuicTransportClient ------------------------- *)
\* done.Wait() returns: the event is signaled.
WaitReturns_NoWait(t) == TRUE

WaitReturns(t) == done[t]

\* The frame the task's unretained `result` and `event` pointers refer to.
SlotOf_Shared(task) == "t1"

SlotOf(task) == task.caller

\* The records of `parameters` the fingerprint loop reads: the first
\* server_certificate_fingerprints_length of the array.
Given(parameters) ==
  SubSeq(parameters.server_certificate_fingerprints, 1,
         parameters.server_certificate_fingerprints_length)

\* Lines 105-117: the locals of the call; the fingerprint loop; the event,
\* created NOT_SIGNALED. `form` is the overload the caller used.
CreateClient_Enter(t, u, parameters, form) ==
  /\ CanCall(t)
  /\ TotalClientCalls < MaxClientCalls
  /\ pc' = [pc EXCEPT ![t] = "posting"]
  /\ url' = [url EXCEPT ![t] = u]
  /\ param' = [param EXCEPT ![t] = TranslateFingerprints(Given(parameters))]
  /\ result' = [result EXCEPT ![t] = Null]
  /\ done' = [done EXCEPT ![t] = FALSE]
  /\ callNo' = [callNo EXCEPT ![t] = @ + 1]
  /\ callInfo' = [callInfo EXCEPT ![t] =
        [startedRunning |-> ioRunning,
         raced |-> (factory = "destroying" /\ ioRunning),
         posted |-> "no",
         form |-> form,
         fps |-> Given(parameters),
         serverCalls |-> Len(serverLog)]]
  /\ UNCHANGED <<processVars, factoryVars, taskVars, clients, serverVars, clientLog,
                 endpointOps>>

\* Lines 101-104: the two-argument form, called with a well-formed
\* Parameters (the length is the length of the array).
CreateClient_Begin(t, u, fps) ==
  CreateClient_Enter(t, u,
     [server_certificate_fingerprints |-> fps,
      server_certificate_fingerprints_length |-> Len(fps)],
     "parameters")

\* Lines 96-97: the Parameters the one-argument form makes: the length is
\* set to 0, the array is left as constructed.
OneArgParameters_Unset(array) ==
  [server_certificate_fingerprints |-> array,
   server_certificate_fingerprints_length |-> Len(array)]

OneArgParameters(array) ==
  [server_certificate_fingerprints |-> array,
   server_certificate_fingerprints_length |-> 0]

\* Lines 94-99: the one-argument form calls the two-argument form.
CreateClient_Url(t, u, array) ==
  CreateClient_Enter(t, u, OneArgParameters(array), "url")

\* Lines 118-134: PostTask. `param` is copied into the closure; url, result
\* and done are passed unretained, so the task reaches them through the
\* caller. A stopped thread's task runner drops the task; the call does not
\* look at PostTask's answer.
CreateClient_Post_Detached(t) ==
  /\ pc[t] = "posting"
  /\ ioQueue' = <<[caller |-> t, no |-> callNo[t], param |-> param[t]]>>
                   \o ioQueue
  /\ pc' = [pc EXCEPT ![t] = "idle"]
  /\ UNCHANGED <<processVars, factoryVars, ioCur, ioPc, ioClient, url, param,
                 result, done, callNo, clients, serverVars, clientLog,
                 endpointOps, callInfo>>

CreateClient_Post(t) ==
  /\ pc[t] = "posting"
  /\ IF ioRunning
       THEN /\ ioQueue' = Append(ioQueue,
                 [caller |-> t, no |-> callNo[t], param |-> param[t]])
            /\ callInfo' = [callInfo EXCEPT ![t].posted = "queued"]
       ELSE /\ ioQueue' = ioQueue
            /\ callInfo' = [callInfo EXCEPT ![t].posted = "rejected"]
  /\ pc' = [pc EXCEPT ![t] = "waiting"]
  /\ UNCHANGED <<processVars, factoryVars, ioCur, ioPc, ioClient, url, param, result, done,
                 callNo, clients, serverVars, clientLog, endpointOps>>

\* Lines 135-136: done.Wait() (the AUTOMATIC event resets), return result;
\* the frame with its locals is gone.
CreateClient_Return(t) ==
  /\ pc[t] = "waiting"
  /\ WaitReturns(t)
  /\ done' = [done EXCEPT ![t] = FALSE]
  /\ result' = [result EXCEPT ![t] = Null]
  /\ url' = [url EXCEPT ![t] = GoodUrl]
  /\ param' = [param EXCEPT ![t] = <<>>]
  /\ callInfo' = [callInfo EXCEPT ![t] = NoInfo]
  /\ clientLog' = clientLog \cup
        {[thread |-> t, no |-> callNo[t], url |-> url[t], param |-> param[t],
          handle |-> result[t], taskPending |-> TaskPending(t),
          concurrent |-> (\E o \in Threads \ {t} : pc[o] = "waiting"),
          info |-> callInfo[t]]}
  /\ pc' = [pc EXCEPT ![t] = "idle"]
  /\ UNCHANGED <<processVars, factoryVars, taskVars, callNo, clients, serverVars,
                 endpointOps>>

(* ----------------- the construction task, on the I/O thread ------------ *)
\* Lines 125-128: the I/O thread takes the head of its queue and runs the
\* lambda: origin from the url, new QuicTransportOwtClientImpl.
Task_Construct ==
  /\ ioRunning
  /\ ioPc = "idle"
  /\ pc["io"] = "idle"
  /\ ioQueue # <<>>
  /\ LET task == Head(ioQueue)
         u == url[task.caller]
     IN /\ ioCur' = <<task>>
        /\ ioQueue' = Tail(ioQueue)
        /\ clients' = Append(clients,
             [url |-> u, origin |-> OriginCreate(u), param |-> task.param,
              io_thread |-> "io", event_thread |-> "ev",
              call |-> <<task.caller, task.no>>])
        /\ ioClient' = Len(clients) + 1
        /\ endpointOps' = endpointOps \cup {[op |-> "ConstructClient", on |-> "io"]}
  /\ ioPc' = "constructed"
  /\ UNCHANGED <<processVars, factoryVars, pc, url, param, result, done, callNo,
                 serverVars, clientLog, callInfo>>

\* Line 129: *result = client
Task_WriteResult ==
  /\ ioPc = "constructed"
  /\ result' = [result EXCEPT ![SlotOf(ioCur[1])] = ioClient]
  /\ ioPc' = "written"
  /\ UNCHANGED <<processVars, factoryVars, ioQueue, ioCur, ioClient, pc, url, param, done,
                 callNo, clients, serverVars, clientLog, endpointOps, callInfo>>

\* Line 130: event->Signal(); the task ends.
Task_Signal ==
  /\ ioPc = "written"
  /\ done' = [done EXCEPT ![SlotOf(ioCur[1])] = TRUE]
  /\ ioPc' = "idle"
  /\ ioCur' = <<>>
  /\ ioClient' = Null
  /\ UNCHANGED <<processVars, factoryVars, ioQueue, pc, url, param, result, callNo,
                 clients, serverVars, clientLog, endpointOps, callInfo>>

(* ------------------- CreateQuicTransportServer ------------------------- *)
\* Lines 63-68 / 79-83: the early return on a provider that failed to
\* initialize.
InitFailed_Ignored(variant, material) == FALSE

InitFailed(variant, material) ==
  ~ProofSourceInitialize(ProviderFor(variant), material)

\* Line 91: delete the server.
Deleted_Leak(server) == server

Deleted(server) == [server EXCEPT !.live = FALSE]

\* The live servers constructed for a port.
Holders(port) ==
  {h \in 1..Len(servers) : servers[h].live /\ servers[h].port = port}

\* Lines 57-72 (file pair) and 74-87 (archive + password): the provider is
\* made and initialized on the calling thread; on failure nullptr; otherwise
\* the server is constructed, on the calling thread, owning the provider and
\* holding the two thread pointers.
CreateServer(t, variant, port, material) ==
  /\ CanCall(t)
  /\ Len(serverLog) < MaxServerCalls
  /\ LET proof == [variant |-> variant, provider |-> ProviderFor(variant),
                   material |-> material,
                   initialized |->
                     ProofSourceInitialize(ProviderFor(variant), material)]
         failed == InitFailed(variant, material)
         h == IF failed THEN Null ELSE Len(servers) + 1
     IN /\ servers' = IF failed THEN servers
                      ELSE Append(servers,
                             [port |-> port, proof_source |-> proof,
                              io_thread |-> "io", event_thread |-> "ev",
                              live |-> TRUE, builtOn |-> t,
                              inTask |-> (ioCur # <<>>)])
        /\ endpointOps' = IF failed THEN endpointOps
                          ELSE endpointOps \cup
                                 {[op |-> "ConstructServer", on |-> t]}
        /\ serverLog' = Append(serverLog,
             [thread |-> t, variant |-> variant, port |-> port,
              material |-> material, handle |-> h,
              held |-> Cardinality(Holders(port))])
  /\ UNCHANGED <<processVars, released, factoryVars, taskVars, pc, url, param, result, done, callNo,
                 clients, clientLog, callInfo>>

\* Lines 89-92: delete the server, on the calling thread.
ReleaseServer(t, h) ==
  /\ CanCall(t)
  /\ h \in 1..Len(servers)
  /\ servers[h].live
  /\ servers' = [servers EXCEPT ![h] = Deleted(servers[h])]
  /\ released' = released \cup {h}
  /\ endpointOps' = endpointOps \cup {[op |-> "DestroyServer", on |-> t]}
  /\ UNCHANGED <<processVars, factoryVars, taskVars, pc, url, param, result, done, callNo,
                 clients, clientLog, serverLog, callInfo>>

(* ------------------- ~QuicTransportFactoryImpl ------------------------- *)
\* Line 51: the defaulted destructor destroys event_thread_, then
\* io_thread_; destroying a base::Thread stops and joins it. The owner's
\* thread enters the destructor. Calls whose task has not started are now
\* racing with the teardown.
Destroy_Begin ==
  /\ factory = "alive"
  /\ factory' = "destroying"
  /\ callInfo' = [c \in Threads |->
        IF \/ pc[c] = "posting"
           \/ \E i \in 1..Len(ioQueue) : ioQueue[i].caller = c
          THEN [callInfo[c] EXCEPT !.raced = TRUE] ELSE callInfo[c]]
  /\ UNCHANGED <<processVars, ioRunning, evRunning, taskVars, pc, url, param, result, done,
                 callNo, clients, serverVars, clientLog, endpointOps>>

\* event_thread_ is stopped and joined; the join waits for what the thread
\* is running.
Destroy_StopEventThread ==
  /\ factory = "destroying"
  /\ evRunning
  /\ pc["ev"] = "idle"
  /\ evRunning' = FALSE
  /\ UNCHANGED <<processVars, factory, ioRunning, taskVars, pc, url, param,
                 result, done, callNo, clients, serverVars, clientLog,
                 endpointOps, callInfo>>

\* io_thread_ is stopped and joined: the join waits for the task that is
\* running; the draining of the queue before it is best-effort, and what is
\* still queued is dropped without running.
Destroy_StopIOThread ==
  /\ factory = "destroying"
  /\ ~evRunning
  /\ ioRunning
  /\ ioPc = "idle"
  /\ pc["io"] = "idle"
  /\ ioRunning' = FALSE
  /\ ioQueue' = <<>>
  /\ callInfo' = [c \in Threads |->
        IF \E i \in 1..Len(ioQueue) : ioQueue[i].caller = c
          THEN [callInfo[c] EXCEPT !.posted = "dropped"] ELSE callInfo[c]]
  /\ UNCHANGED <<processVars, factory, evRunning, ioCur, ioPc, ioClient, pc, url,
                 param, result, done, callNo, clients, serverVars, clientLog,
                 endpointOps>>

\* The destructor returns: the factory object is gone.
Destroy_Finish_Early ==
  /\ factory = "destroying"
  /\ factory' = "destroyed"
  /\ UNCHANGED <<processVars, ioRunning, evRunning, taskVars, pc, url, param,
                 result, done, callNo, clients, serverVars, clientLog,
                 endpointOps, callInfo>>

Destroy_Finish ==
  /\ factory = "destroying"
  /\ ~ioRunning
  /\ factory' = "destroyed"
  /\ UNCHANGED <<processVars, ioRunning, evRunning, taskVars, pc, url, param, result, done,
                 callNo, clients, serverVars, clientLog, endpointOps, callInfo>>

(* ------------- QuicTransportFactoryImpl(), Init() ---------------------- *)
\* Lines 28-49, 139-152: one more factory is constructed in the process
\* (QuicTransportFactory::Create / CreateForTesting). Its constructor starts
\* its own two threads and calls Init(): CommandLine::Init, AppendSwitch,
\* the logging settings. Nothing guards the call at line 48.
Factory_Construct ==
  /\ factories < MaxFactories
  /\ factories' = factories + 1
  /\ initRuns' = initRuns + 1
  /\ commandLine' = Append(commandLine, "--quic_default_to_bbr")
  /\ UNCHANGED <<factoryVars, taskVars, pc, url, param, result, done, callNo,
                 clients, serverVars, clientLog, endpointOps, callInfo>>

(* --------------------------- specifications ---------------------------- *)
ClientCall(T) ==
  \/ \E t \in T, u \in Urls, fps \in FingerprintLists :
        CreateClient_Begin(t, u, fps)
  \/ \E t \in T : CreateClient_Post(t)
  \/ \E t \in T : CreateClient_Return(t)

IOThreadStep == Task_Construct \/ Task_WriteResult \/ Task_Signal

ServerCallBy(T) ==
  \/ \E t \in T, v \in Variants, p \in Ports, m \in Materials :
        CreateServer(t, v, p, m)
  \/ \E t \in T, h \in 1..Len(servers) : ReleaseServer(t, h)

ServerCall == ServerCallBy(Threads)

Teardown ==
  \/ Destroy_Begin
  \/ Destroy_StopEventThread
  \/ Destroy_StopIOThread
  \/ Destroy_Finish

Next ==
  \/ ClientCall(Threads)
  \/ \E t \in Threads, u \in Urls, array \in UnsetArrays :
        CreateClient_Url(t, u, array)
  \/ IOThreadStep
  \/ ServerCall
  \/ Teardown
  \/ Factory_Construct

Spec == Init /\ [][Next]_vars

\* The operations on servers and the hand-off of clients share no state but
\* the teardown; each is also specified with the teardown alone.
\* The client hand-off and the teardown.
ClientNext == ClientCall(Threads) \/ IOThreadStep \/ Teardown

ClientSpec == Init /\ [][ClientNext]_vars

\* The servers and the teardown.
ServerNext == ServerCall \/ Teardown

ServerSpec == Init /\ [][ServerNext]_vars

\* The hand-off on a topology that keeps running: every thread calls, the
\* I/O thread's loop takes the tasks of its queue, and a thread inside a
\* call goes on to its next statement.
HandoffNext == ClientCall(Threads) \/ IOThreadStep

Fairness(T) ==
  /\ WF_vars(IOThreadStep)
  /\ \A t \in T : WF_vars(CreateClient_Post(t))
  /\ \A t \in T : WF_vars(CreateClient_Return(t))

FairSpec == Init /\ [][HandoffNext]_vars /\ Fairness(Threads)

\* The factories of the process, with the servers and the teardown of the
\* first one.
ProcessNext == Factory_Construct \/ ServerCallBy({"t1"}) \/ Teardown

ProcessSpec == Init /\ [][ProcessNext]_vars

\* The caller threads' client calls racing with the teardown.
ShutdownNext ==
  \/ \E t \in CallerThreads, fps \in FingerprintLists :
        CreateClient_Begin(t, GoodUrl, fps)
  \/ \E t \in CallerThreads : CreateClient_Post(t)
  \/ \E t \in CallerThreads : CreateClient_Return(t)
  \/ IOThreadStep
  \/ Teardown

ShutdownSpec == Init /\ [][ShutdownNext]_vars

\* One caller thread that makes servers and clients.
MixedNext ==
  \/ \E fps \in FingerprintLists : CreateClient_Begin("t1", GoodUrl, fps)
  \/ CreateClient_Post("t1")
  \/ CreateClient_Return("t1")
  \/ IOThreadStep
  \/ \E v \in Variants, p \in Ports, m \in {"pem", "pfx", "none"} :
        CreateServer("t1", v, p, m)

MixedSpec == Init /\ [][MixedNext]_vars

\* The two forms of CreateQuicTransportClient, called by one thread with
\* every list of TranslatorLists, on a topology that keeps running.
FormsCall(T) ==
  \/ \E t \in T, u \in Urls, array \in UnsetArrays : CreateClient_Url(t, u, array)
  \/ \E t \in T, u \in Urls, fps \in TranslatorLists :
        CreateClient_Begin(t, u, fps)
  \/ \E t \in T : CreateClient_Post(t)
  \/ \E t \in T : CreateClient_Return(t)

FormsNext == FormsCall({"t1"}) \/ IOThreadStep

FormsSpec == Init /\ [][FormsNext]_vars

\* The same, with the calls coming from the threads that are not the I/O
\* thread.
ConcurrentNext == ClientCall(CallerThreads) \/ IOThreadStep

ConcurrentSpec == Init /\ [][ConcurrentNext]_vars /\ Fairness(CallerThreads)

(* ------------------------------ claims --------------------------------- *)
\* The client a returned handle names was built by the task of that call.
BuiltBy(r) ==
  /\ r.handle \in 1..Len(clients)
  /\ clients[r.handle].call = <<r.thread, r.no>>

\* Thread t is blocked in done.Wait() and nothing is left that could signal.
Stuck(t) == pc[t] = "waiting" /\ ~done[t] /\ ~TaskPending(t)

\* C1: every CreateQuicTransportClient call that has returned returned the
\* handle its own construction task wrote, and returned only after that task
\* had constructed the client, written the slot and signaled: never a null
\* or stale slot value, never while the task was queued or running.
C1_HandleAfterConstruction ==
  \A r \in clientLog :
     /\ r.handle # Null
     /\ ~r.taskPending
     /\ r.info.posted = "queued"
     /\ BuiltBy(r)

\* A call has returned the client its task built.
C1_Witness == \E r \in clientLog : r.handle # Null /\ BuiltBy(r)

\* C2: no caller that entered CreateQuicTransportClient after the I/O thread
\* stopped accepting tasks is blocked on a signal that no task will set.
C2_NoWaitOnDeadSignal ==
  \A t \in Threads : ~(Stuck(t) /\ ~callInfo[t].startedRunning)

\* C3: on a running topology whose I/O thread services its queue, a call
\* from any thread (caller, event or I/O thread) eventually returns.
C3_EveryThreadReturns ==
  \A t \in Threads : (pc[t] = "waiting") ~> (pc[t] = "idle")

\* What C4 says of the states: a call whose provider failed to initialize
\* returned nullptr, every server object holds an initialized provider, and
\* there is one server object per call that returned a handle.
C4_State ==
  /\ \A i \in 1..Len(serverLog) :
        ~ProofSourceInitialize(ProviderFor(serverLog[i].variant),
                               serverLog[i].material)
           => serverLog[i].handle = Null
  /\ \A h \in 1..Len(servers) : servers[h].proof_source.initialized
  /\ Len(servers) = Cardinality({i \in 1..Len(serverLog) :
                                    serverLog[i].handle # Null})

\* What C4 says of the steps: the step of a call whose provider failed to
\* initialize constructs no server and posts no task.
C4_Step ==
  (/\ Len(serverLog') = Len(serverLog) + 1
   /\ ~ProofSourceInitialize(
          ProviderFor(serverLog'[Len(serverLog')].variant),
          serverLog'[Len(serverLog')].material))
    => UNCHANGED <<processVars, servers, endpointOps, ioQueue, ioCur>>

\* C4: for both CreateQuicTransportServer variants, a provider that fails to
\* initialize makes the call return nullptr, construct no server and post no
\* task; a server exists only with an initialized provider.
C4_FailedIdentityBuildsNothing == []C4_State /\ [][C4_Step]_vars

\* Both variants have failed on invalid material.
C4_Witness ==
  \E i, j \in 1..Len(serverLog) :
     /\ serverLog[i].variant = "FilePair" /\ serverLog[i].material = "invalid"
     /\ serverLog[j].variant = "Archive" /\ serverLog[j].material = "invalid"
     /\ serverLog[i].handle = Null /\ serverLog[j].handle = Null

\* C5: every server object was constructed by a task on the I/O thread.
C5_ServerBuiltByHandoff ==
  \A h \in 1..Len(servers) : servers[h].builtOn = "io" /\ servers[h].inTask

\* C6: every construction and destruction of an endpoint ran on the I/O
\* thread.
C6_EndpointsOnIOThreadOnly == \A e \in endpointOps : e.on = "io"

\* What C7 says of the states: a returned handle names the client built from
\* the call's own url and parameters, no two calls returned the same handle,
\* and an event is signaled only for its own caller's finished task.
C7_State ==
  /\ \A r \in clientLog :
        /\ r.handle # Null
        /\ BuiltBy(r)
        /\ clients[r.handle].url = r.url
        /\ clients[r.handle].param = r.param
  /\ \A r1, r2 \in clientLog : r1.handle = r2.handle => r1 = r2
  /\ \A t \in Threads :
        done[t] => /\ pc[t] = "waiting"
                   /\ ~TaskPending(t)
                   /\ result[t] \in 1..Len(clients)
                   /\ clients[result[t]].call = <<t, callNo[t]>>

C8_RaceWithTeardownFails ==
  /\ \A t \in Threads : ~(Stuck(t) /\ callInfo[t].raced)
  /\ \A r \in clientLog : r.info.raced => r.handle = Null

\* C9: once the factory's threads are torn down, no endpoint made by the
\* factory is still live.
C9_TopologyOutlivesEndpoints ==
  (factory = "destroyed") =>
     /\ \A h \in 1..Len(servers) : ~servers[h].live
     /\ clients = <<>>

\* C10: a call whose url does not parse to an origin returns nullptr.
C10_FailedConstructionReturnsNull ==
  \A r \in clientLog : OriginCreate(r.url) = <<"opaque">> => r.handle = Null

\* C11: CreateQuicTransportClient(url) is CreateQuicTransportClient(url,
\* parameters with no fingerprints): a call of the first form carries the
\* verification configuration of an empty list into its task, and the
\* clients the two forms build for one url have the same url, origin and
\* verification configuration.
C11_OneArgIsEmptyList ==
  /\ \A t \in Threads :
        callInfo[t].form = "url" =>
          /\ param[t] = TranslateFingerprints(<<>>)
          /\ \A i \in 1..Len(ioQueue) :
                ioQueue[i].caller = t => ioQueue[i].param = param[t]
  /\ \A r1, r2 \in clientLog :
        (/\ r1.info.form = "url"
         /\ r2.info.form = "parameters" /\ r2.info.fps = <<>>
         /\ r1.url = r2.url)
          => /\ clients[r1.handle].param = clients[r2.handle].param
             /\ clients[r1.handle].origin = clients[r2.handle].origin
             /\ clients[r1.handle].url = clients[r2.handle].url

\* Both forms have returned a client for the same url.
C11_Witness ==
  \E r1, r2 \in clientLog :
     /\ r1.info.form = "url"
     /\ r2.info.form = "parameters" /\ r2.info.fps = <<>>
     /\ r1.url = r2.url
     /\ BuiltBy(r1) /\ BuiltBy(r2)

\* C12: the verification configuration of a constructed client holds one
\* entry per fingerprint record of the call, entry i carrying the digest of
\* record i; no record, no entry.
C12_TranslationKeepsOrderAndLength ==
  \A r \in clientLog :
     BuiltBy(r) =>
       LET cfg == clients[r.handle].param IN
         /\ Len(cfg) = Len(r.info.fps)
         /\ \A i \in 1..Len(cfg) : cfg[i].fingerprint = r.info.fps[i].fingerprint
         /\ (r.info.fps = <<>> => cfg = <<>>)

\* A client was built from two records with different digests.
C12_Witness ==
  \E r \in clientLog :
     /\ BuiltBy(r)
     /\ Len(r.info.fps) = 2
     /\ r.info.fps[1].fingerprint # r.info.fps[2].fingerprint
     /\ Len(clients[r.handle].param) = 2

\* The call was given a record of an algorithm other than SHA-256.
Unsupported(fps) == \E i \in 1..Len(fps) : fps[i].algorithm # "sha-256"

\* C13: a call given a record of an unsupported algorithm posts no task and
\* fails; no constructed client holds such a record relabelled as SHA-256.
C13_UnsupportedAlgorithmRejected ==
  /\ \A t \in Threads :
        Unsupported(callInfo[t].fps) => callInfo[t].posted = "no"
  /\ \A r \in clientLog : Unsupported(r.info.fps) => r.handle = Null

\* The material is of the kind the overload takes.
KindOf(variant) == IF variant = "FilePair" THEN "pem" ELSE "pfx"

\* C14: every server was built from the identity material of exactly one
\* variant, the one of the overload that was called; a call that names no
\* material, or material of the other kind, returns nullptr and builds
\* nothing.
C14_OneIdentityVariant ==
  /\ \A h \in 1..Len(servers) :
        /\ servers[h].proof_source.variant \in Variants
        /\ servers[h].proof_source.material =
              KindOf(servers[h].proof_source.variant)
  /\ \A i \in 1..Len(serverLog) :
        serverLog[i].material # KindOf(serverLog[i].variant)
           => serverLog[i].handle = Null
  /\ Len(servers) = Cardinality({i \in 1..Len(serverLog) :
                       serverLog[i].material = KindOf(serverLog[i].variant)})

\* A server was built, and a call without material returned nullptr.
C14_Witness ==
  \E i, j \in 1..Len(serverLog) :
     /\ serverLog[i].handle # Null
     /\ serverLog[j].material = "none" /\ serverLog[j].handle = Null

\* What C15 says of the states: a released server is not live and holds no
\* port, and a call with loadable identity returns a handle, the call that
\* follows a release on the same port included.
C15_State ==
  /\ \A h \in released :
        ~servers[h].live /\ h \notin Holders(servers[h].port)
  /\ \A i \in 1..Len(serverLog) :
        serverLog[i].material = KindOf(serverLog[i].variant)
           => serverLog[i].handle # Null

\* What C15 says of the steps: a server stops being live only in the
\* ReleaseQuicTransportServer call made on it.
C15_Step ==
  \A h \in 1..Len(servers) :
     (servers[h].live /\ ~servers'[h].live)
        => (h \notin released /\ h \in released')

\* C15: ReleaseQuicTransportServer frees the server, so that a following
\* CreateQuicTransportServer on the same port returns a handle; nothing
\* else, the teardown included, reclaims a server.
C15_ReleaseFreesServer == []C15_State /\ [][C15_Step]_vars

\* A server was created on a port, released, and a second one created on
\* the same port while nothing held it.
C15_Witness ==
  \E i, j \in 1..Len(serverLog) :
     /\ i < j
     /\ serverLog[i].port = serverLog[j].port
     /\ serverLog[i].handle \in released
     /\ serverLog[j].held = 0
     /\ serverLog[j].handle # Null

C17_State ==
  /\ factory = "destroyed" => (~ioRunning /\ ~evRunning)
  /\ ~ioRunning => (ioQueue = <<>> /\ ioCur = <<>>)
  /\ \A t \in Threads :
        callInfo[t].posted \in {"dropped", "rejected"}
           => ~\E i \in 1..Len(clients) : clients[i].call = <<t, callNo[t]>>

\* What C17 says of the steps: a stopped thread stays stopped, and no task
\* runs on the stopped I/O thread.
C17_Step ==
  /\ ~evRunning => ~evRunning'
  /\ ~ioRunning => (~ioRunning' /\ clients' = clients /\ ioCur' = <<>>)

\* C17: the teardown stops and joins both threads: after it neither thread
\* runs, and a task that was still pending is never executed.
C17_TeardownStopsTopology == []C17_State /\ [][C17_Step]_vars

\* The destructor has returned and a task that was pending was dropped.
C17_Witness ==
  /\ factory = "destroyed"
  /\ \E t \in Threads : callInfo[t].posted = "dropped"

\* C18: the process-wide bootstrap runs at most once however many factories
\* the process constructs, and the construction of a second factory leaves
\* the process-wide command line as the first one set it.
C18_BootstrapRunsOnce ==
  /\ initRuns <= 1
  /\ commandLine = <<"--quic_default_to_bbr">>

\* C19: a construction task, queued or running, belongs to a call that is
\* still blocked in done.Wait(): the url it reads, the slot and the event it
\* writes are those of a live frame, and no task is left once its caller
\* has returned.
C19_TaskOnlyInLiveFrame ==
  \A k \in 1..(Len(ioQueue) + Len(ioCur)) :
     LET task == (ioCur \o ioQueue)[k]
     IN /\ pc[task.caller] = "waiting"
        /\ callNo[task.caller] = task.no

\* The task has written the slot and is about to signal; its caller is
\* blocked in the call that posted it.
C19_Witness ==
  /\ ioPc = "written"
  /\ pc[ioCur[1].caller] = "waiting"
  /\ result[ioCur[1].caller] # Null
  /\ ~done[ioCur[1].caller]

\* What C20 says of the states: the calls made after a failed
\* CreateQuicTransportServer behave as without it: a client call returns
\* the client built for it, a server call with loadable identity returns a
\* handle, and the two threads run.
C20_State ==
  /\ ioRunning /\ evRunning
  /\ \A r \in clientLog : r.handle # Null /\ BuiltBy(r)
  /\ \A j \in 1..Len(serverLog) :
        serverLog[j].material = KindOf(serverLog[j].variant)
           => /\ serverLog[j].handle \in 1..Len(servers)
              /\ servers[serverLog[j].handle].port = serverLog[j].port

\* What C20 says of the steps: the step of a CreateQuicTransportServer call
\* that returns nullptr changes nothing but the record of the call.
C20_Step ==
  (/\ Len(serverLog') = Len(serverLog) + 1
   /\ serverLog'[Len(serverLog')].material #
         KindOf(serverLog'[Len(serverLog')].variant))
    => /\ serverLog'[Len(serverLog')].handle = Null
       /\ UNCHANGED <<processVars, factoryVars, taskVars, pc, url, param,
                      result, done, callNo, clients, servers, released,
                      clientLog, endpointOps, callInfo>>

\* C20: a failed CreateQuicTransportServer leaves the factory as it was:
\* the threads run, no task is posted, no endpoint changes, and the calls
\* that follow behave as if it had not been made.
C20_FailedServerCallChangesNothing == []C20_State /\ [][C20_Step]_vars

\* After a failed server call, a client call made later returned its
\* client and a server call made later returned its server.
C20_Witness ==
  \E i, j \in 1..Len(serverLog) : \E r \in clientLog :
     /\ i < j
     /\ serverLog[i].handle = Null
     /\ serverLog[j].handle # Null
     /\ r.info.serverCalls >= i
     /\ r.handle # Null

====
